---------------------------- MODULE Spec2Model ----------------------------
(***************************************************************************)
(* Model of app.py: the login-protected flashcards server.                 *)
(*                                                                         *)
(* Text is a sequence of one-character strings, so that str.strip,         *)
(* str.lower, str.split and str.startswith are computed as Python          *)
(* computes them.  The alphabet is Latin-1 (the characters up to U+00FF):  *)
(* strip and lower are Python's on every text over it.                     *)
(* A Python value that may be None (a missing form field,                  *)
(* a missing query argument, an absent session key, an unset environment   *)
(* variable) is a set with at most one element: {} is None / absent.       *)
(*                                                                         *)
(* Every record is written with its fields in the order TLC keeps them in  *)
(* (the order in which the names first occur in this module), so that a    *)
(* record is in normal form from the moment it is built.                   *)
(***************************************************************************)
EXTENDS Integers, Sequences, FiniteSets, TLC

\* ------------------------------------------------------------------ bounds

\* Number of browser sessions (cookie jars) talking to the server.
NumSessions == 2
\* Cap on the rows of login_events (the table itself is unbounded).
MaxEvents == 2

\* ------------------------------------------------------------ Python text

None == {}
Some(x) == {x}
\* The value inside a non-None optional.
The(opt) == CHOOSE v \in opt : TRUE

\* The white-space characters that have no escape in a string: vertical tab
\* (U+000B), the file, group, record and unit separators (U+001C to U+001F),
\* next line (U+0085) and the no-break space (U+00A0).
VT == ""
FS == ""
GS == ""
RS == ""
US == ""
NEL == ""
NBSP == " "

\* What str.strip() removes: the characters c with c.isspace().
Whitespace == {"\t", "\n", VT, "\f", "\r", FS, GS, RS, US, " ", NEL, NBSP}

RECURSIVE lstrip(_)
lstrip(s) ==
    IF s # <<>> /\ Head(s) \in Whitespace THEN lstrip(Tail(s)) ELSE s

RECURSIVE rstrip(_)
rstrip(s) ==
    IF s # <<>> /\ s[Len(s)] \in Whitespace
    THEN rstrip(SubSeq(s, 1, Len(s) - 1))
    ELSE s

\* str.strip()
strip(s) == rstrip(lstrip(s))

\* The characters str.lower() changes and what it makes of each: A to Z, and
\* the upper-case letters U+00C0 to U+00DE but the sign U+00D7.
UpperCase ==
    <<"A", "B", "C", "D", "E", "F", "G", "H", "I", "J", "K", "L", "M",
      "N", "O", "P", "Q", "R", "S", "T", "U", "V", "W", "X", "Y", "Z",
      "À", "Á", "Â", "Ã", "Ä", "Å", "Æ", "Ç", "È", "É", "Ê", "Ë", "Ì",
      "Í", "Î", "Ï", "Ð", "Ñ", "Ò", "Ó", "Ô", "Õ", "Ö", "Ø", "Ù", "Ú",
      "Û", "Ü", "Ý", "Þ">>
LowerCase ==
    <<"a", "b", "c", "d", "e", "f", "g", "h", "i", "j", "k", "l", "m",
      "n", "o", "p", "q", "r", "s", "t", "u", "v", "w", "x", "y", "z",
      "à", "á", "â", "ã", "ä", "å", "æ", "ç", "è", "é", "ê", "ë", "ì",
      "í", "î", "ï", "ð", "ñ", "ò", "ó", "ô", "õ", "ö", "ø", "ù", "ú",
      "û", "ü", "ý", "þ">>

\* str.lower() on each character it changes.
lower_of ==
    [c \in {UpperCase[i] : i \in DOMAIN UpperCase} |->
        LowerCase[CHOOSE i \in DOMAIN UpperCase : UpperCase[i] = c]]

\* str.lower() on one character.
lower_char(c) == IF c \in DOMAIN lower_of THEN lower_of[c] ELSE c

\* str.lower()
lower(s) == [i \in DOMAIN s |-> lower_char(s[i])]

\* str.split(",") : the pieces between commas, empty pieces included.
RECURSIVE split_comma(_)
split_comma(s) ==
    IF \A i \in DOMAIN s : s[i] # ","
    THEN <<s>>
    ELSE LET k == CHOOSE i \in DOMAIN s :
                      s[i] = "," /\ \A j \in 1..(i - 1) : s[j] # ","
         IN  <<SubSeq(s, 1, k - 1)>> \o split_comma(SubSeq(s, k + 1, Len(s)))

\* ------------------------------------------------------------- passwords

\* The passwords of the model.
Passwords == {"", "changeme123", "pw"}

\* hashlib.sha256(password.encode("utf-8")).hexdigest()
hash_password(password) ==
    CASE password = "" ->
           "e3b0c44298fc1c149afbf4c8996fb92427ae41e4649b934ca495991b7852b855"
      [] password = "changeme123" ->
           "494a715f7e9b4071aca61bac42ca858a309524e5864f0920030862a4ae7589be"
      [] password = "pw" ->
           "30c952fab122c3f9759f02a6d95c3758b246b4fee239957b2d4fee46e26170c4"

verify_password(password, password_hash) ==
    hash_password(password) = password_hash


\* ---------------------------------------------------------- users table

\* "owner@example.com", the default of BOOTSTRAP_USER_EMAIL.
DefaultBootstrapEmail ==
    <<"o", "w", "n", "e", "r", "@", "e", "x", "a", "m", "p", "l", "e", ".",
      "c", "o", "m">>

\* "changeme123", the default of BOOTSTRAP_USER_PASSWORD.
DefaultBootstrapPassword == "changeme123"

\* os.environ.get(name, default): the default only when the variable is unset.
environ_get(value, default) == IF value = None THEN default ELSE The(value)

\* value or empty, for form.get(name) or "" and args.get(name, ""): the
\* empty text when the value is None, the value otherwise.
or_empty(value, empty) == IF value = None THEN empty ELSE The(value)

\* A table whose id is INTEGER PRIMARY KEY AUTOINCREMENT: its rows in id
\* order, and seq, the largest id the table ever gave out (its row of
\* sqlite_sequence; 0 when it has none).
Table(rows, seq) == [rows |-> rows, seq |-> seq]

\* A row of users (created_at, a timestamp, is left out).
UserRow(id, email, password_hash, is_active) ==
    [id |-> id, password_hash |-> password_hash, email |-> email,
     is_active |-> is_active]

\* The largest of a non-empty set of numbers.
Max(S) == CHOOSE m \in S : \A n \in S : n <= m

\* The id AUTOINCREMENT gives the next row: one more than the largest id the
\* table holds or ever gave out.
next_id(table) ==
    1 + Max({table.seq} \cup {table.rows[i].id : i \in DOMAIN table.rows})

\* email TEXT UNIQUE: a row of users holds this e-mail (active or not).
email_taken(users, email) ==
    \E i \in DOMAIN users.rows : users.rows[i].email = email

\* INSERT INTO users (email, password_hash, is_active, created_at)
\* VALUES (?, ?, 1, ?): the table after it.  When the e-mail is taken the
\* INSERT raises IntegrityError and the table is as it was.
insert_user(users, email, password_hash) ==
    IF email_taken(users, email) THEN users
    ELSE Table(Append(users.rows,
                      UserRow(next_id(users), email, password_hash, 1)),
               next_id(users))

\* The query without "AND is_active = 1".
rows_with_email_any_status(users, email_norm) ==
    SelectSeq(users.rows, LAMBDA r : r.email = email_norm)

\* The rows SELECT * FROM users WHERE email = ? AND is_active = 1 selects,
\* in table order.
active_rows_with_email(users, email_norm) ==
    SelectSeq(users.rows, LAMBDA r : r.email = email_norm /\ r.is_active = 1)

\* find_user_by_email: fetchone() of that query; None when no row matches.
find_user_by_email(users, email) ==
    LET found == active_rows_with_email(users, lower(strip(email)))
    IN  IF found = <<>> THEN None ELSE Some(Head(found))

\* The exception create_user raises: ValueError for a blank e-mail or an
\* empty password, IntegrityError for an e-mail that is taken; "" when it
\* returns.
create_user_raises(users, email, raw_password) ==
    LET email_norm == lower(strip(email))
    IN  IF email_norm = <<>> THEN "ValueError"
        ELSE IF raw_password = "" THEN "ValueError"
        ELSE IF email_taken(users, email_norm) THEN "IntegrityError"
        ELSE ""

\* create_user: the users table after it, unchanged when it raises.  The id
\* it returns (lastrowid) is the seq of the table after it.
create_user(users, email, raw_password) ==
    IF create_user_raises(users, email, raw_password) # "" THEN users
    ELSE insert_user(users, lower(strip(email)), hash_password(raw_password))

\* BOOTSTRAP_USER_EMAIL as given, neither stripped nor lower-cased.
bootstrap_email_raw(env_email) ==
    environ_get(env_email, DefaultBootstrapEmail)

\* init_db's bootstrap_email and bootstrap_password, for the optional
\* BOOTSTRAP_USER_EMAIL and BOOTSTRAP_USER_PASSWORD.
bootstrap_email(env_email) ==
    lower(strip(environ_get(env_email, DefaultBootstrapEmail)))
bootstrap_password(env_password) ==
    environ_get(env_password, DefaultBootstrapPassword)

\* init_db up to its INSERT: it counted no user and has an e-mail and a
\* password, so it goes on to insert the bootstrap user.
init_db_inserts(users, env_email, env_password) ==
    LET count == Len(users.rows)
    IN  /\ count = 0
        /\ bootstrap_email(env_email) # <<>>
        /\ bootstrap_password(env_password) # ""

\* The exception init_db's INSERT raises on the users table as it is by
\* then: OperationalError ("database is locked") while another connection
\* is inside a write transaction, IntegrityError for an e-mail that is
\* taken; "" when it inserts.
init_db_raises(users, env_email, locked) ==
    IF locked THEN "OperationalError"
    ELSE IF email_taken(users, bootstrap_email(env_email))
    THEN "IntegrityError"
    ELSE ""

\* init_db's INSERT of the bootstrap user, on the users table as it is by
\* then: the table after it, unchanged when the INSERT raises.
init_db_insert(users, env_email, env_password, locked) ==
    IF init_db_raises(users, env_email, locked) # "" THEN users
    ELSE insert_user(users, bootstrap_email(env_email),
                     hash_password(bootstrap_password(env_password)))

\* init_db with no other process at work between its count and its INSERT:
\* the users table after it.
init_db(users, env_email, env_password) ==
    IF init_db_inserts(users, env_email, env_password)
    THEN init_db_insert(users, env_email, env_password, FALSE)
    ELSE users

\* --------------------------------------------------------------- sessions

\* session.clear(): no key at all.
EmptySession == [user_email |-> None, user_id |-> None]

\* session.get("user_id") is truthy: the key is there and is not 0.
logged_in(sess) == \E v \in sess.user_id : v # 0

\* ------------------------------------------------------------ cards loader

\* A card keeps its id and category; question, answer and the image fields
\* are carried along unchanged and are left out.
Card(id, category) == [id |-> id, category |-> category]

\* "Demo", the category of the built-in demo card.
DemoCategory == <<"D", "e", "m", "o">>

\* The id of the built-in demo card.
DemoCardId == 999

\* load_cards when the cache is empty: the optional list it caches and
\* returns; None when it raises (cards.json is not a list of objects).
read_cards(file) ==
    IF ~file.exists THEN Some(<<Card(DemoCardId, DemoCategory)>>)
    ELSE IF ~file.is_list THEN None
    ELSE Some([i \in DOMAIN file.data |->
                  Card(file.data[i].id,
                       or_empty(file.data[i].category, <<>>))])

\* load_cards: the cache after the call (the cached list is returned as is).
load_cards(cache, file) == IF cache # None THEN cache ELSE read_cards(file)

\* The set of names api_get_cards compares against: the non-empty pieces of
\* the stripped parameter.
wanted_categories(categories_param) ==
    {c \in {split_comma(categories_param)[i] :
                i \in DOMAIN split_comma(categories_param)} : c # <<>>}

\* api_get_cards comparing each card's category as stored, not stripped.
filter_cards_raw_category(cards, categories) ==
    LET categories_param == strip(or_empty(categories, <<>>))
    IN  IF categories_param # <<>>
        THEN SelectSeq(cards, LAMBDA c :
                 c.category \in wanted_categories(categories_param))
        ELSE cards

\* The list api_get_cards returns for the loaded cards and the optional
\* ?categories= argument.
filter_cards(cards, categories) ==
    LET categories_param == strip(or_empty(categories, <<>>))
    IN  IF categories_param # <<>>
        THEN SelectSeq(cards, LAMBDA c :
                 strip(c.category) \in wanted_categories(categories_param))
        ELSE cards

\* The set api_categories returns (as a sorted list): the non-empty
\* stripped categories.
category_names(cards) ==
    {strip(cards[i].category) : i \in DOMAIN cards} \ {<<>>}

\* ------------------------------------------------------ requests, routing

\* A request path is the sequence of its segments: <<>> is "/", <<"api">> is
\* "/api", <<"api", "cards">> is "/api/cards".
\* path.startswith("/" + first + "/")
starts_with_dir(path, first) == Len(path) >= 2 /\ path[1] = first

Request(method, path, email, password, categories, sec_fetch_mode) ==
    [password |-> password, email |-> email, categories |-> categories,
     path |-> path, method |-> method, sec_fetch_mode |-> sec_fetch_mode]

\* A response: its status, what it is ("json", "redirect", "file",
\* "login_page", "options", "error"), the detail of that as a sequence (the
\* message of a JSON object or of the login page, the path of the Location,
\* the path under static/ of the file served), the cards or category names
\* of a JSON list, and whether its body is sent (the Allow header of an
\* OPTIONS or 405 answer is left out).
Response(status, kind, detail, cards, names) ==
    [cards |-> cards, status |-> status, kind |-> kind, detail |-> detail,
     names |-> names, body |-> TRUE]

Json(status, message) == Response(status, "json", <<message>>, <<>>, {})
Redirect(location) == Response(302, "redirect", location, <<>>, {})
ErrorPage(status) == Response(status, "error", <<>>, <<>>, {})

\* The headers of a response alone: no body, so no cards and no names.
without_body(resp) ==
    [resp EXCEPT !.cards = <<>>, !.names = {}, !.body = FALSE]

\* Flask's answer to OPTIONS on a path that has a rule: 200, no body.
make_default_options_response ==
    without_body(Response(200, "options", <<>>, <<>>, {}))

\* What goes out for a response: to HEAD its headers alone.
get_wsgi_response(method, resp) ==
    IF method = "HEAD" THEN without_body(resp) ELSE resp

\* send_from_directory / send_static_file of a file under static/, named by
\* its path there: the file, or 404 when it is not there.
send_file(files, file) ==
    IF file \in files
    THEN Response(200, "file", file, <<>>, {})
    ELSE ErrorPage(404)

\* The URL rules of the app, most specific first: the endpoint, the methods
\* it takes and the paths it matches.
url_rule(endpoint, path) ==
    CASE endpoint = "login" -> path = <<"login">>
      [] endpoint = "logout" -> path = <<"logout">>
      [] endpoint = "health" -> path = <<"health">>
      [] endpoint = "serve_logo" -> path = <<"logo.jpg">>
      [] endpoint = "index" -> path = <<>>
      [] endpoint = "index_html" -> path = <<"index.html">>
      [] endpoint = "api_get_cards" -> path = <<"api", "cards">>
      [] endpoint = "api_categories" -> path = <<"api", "categories">>
      [] endpoint = "api_get_state" -> path = <<"api", "state">>
      [] endpoint = "api_set_state" -> path = <<"api", "state">>
      [] endpoint = "api_restart" -> path = <<"api", "restart">>
      [] endpoint = "api_hide" -> path = <<"api", "hide">>
      [] endpoint = "api_unhide_all" -> path = <<"api", "unhide_all">>
      [] endpoint = "static" -> starts_with_dir(path, "static") /\ path[2] # ""
      [] endpoint = "serve_card_file" ->
             starts_with_dir(path, "cards") /\ path[2] # ""
      [] endpoint = "spa_fallback" -> Len(path) >= 1 /\ path[1] # ""

\* The methods= of the route as app.py writes it (GET when it writes none).
route_methods(endpoint) ==
    CASE endpoint \in {"login", "logout"} -> {"GET", "POST"}
      [] endpoint \in {"api_set_state", "api_restart", "api_hide",
                       "api_unhide_all"} -> {"POST"}
      [] OTHER -> {"GET"}

\* The methods the rule takes: those written, HEAD with GET, and OPTIONS,
\* which Flask adds to every rule.
rule_methods(endpoint) ==
    route_methods(endpoint)
        \cup (IF "GET" \in route_methods(endpoint) THEN {"HEAD"} ELSE {})
        \cup {"OPTIONS"}

Endpoints ==
    <<"login", "logout", "health", "serve_logo", "index", "index_html",
      "api_get_cards", "api_categories", "api_get_state", "api_set_state",
      "api_restart", "api_hide", "api_unhide_all", "static",
      "serve_card_file", "spa_fallback">>

\* URL matching: the first rule that matches the path and takes the method;
\* "405" when rules match the path but none takes the method, "404" when no
\* rule matches the path.
match_request(method, path) ==
    LET on_path == SelectSeq(Endpoints, LAMBDA e : url_rule(e, path))
        takes == SelectSeq(on_path, LAMBDA e : method \in rule_methods(e))
    IN  IF takes # <<>> THEN Head(takes)
        ELSE IF on_path # <<>> THEN "405"
        ELSE "404"

\* require_login with "/api/" among the paths it always allows.
require_login_api_allowed(path, sess) ==
    IF \/ starts_with_dir(path, "static")
       \/ starts_with_dir(path, "cards")
       \/ starts_with_dir(path, "api")
       \/ path \in {<<"logo.jpg">>, <<"login">>, <<"logout">>, <<"health">>}
    THEN None
    ELSE IF logged_in(sess) THEN None
    ELSE Some(Redirect(<<"login">>))

\* require_login, the before_request guard: None lets the request through,
\* otherwise the response that ends it.
require_login(path, sess) ==
    IF \/ starts_with_dir(path, "static")
       \/ starts_with_dir(path, "cards")
       \/ path = <<"logo.jpg">>
       \/ path = <<"login">>
       \/ path = <<"logout">>
       \/ path = <<"health">>
    THEN None
    ELSE IF logged_in(sess) THEN None
    ELSE IF starts_with_dir(path, "api") THEN Some(Json(401, "Unauthorized"))
    ELSE Some(Redirect(<<"login">>))

\* ------------------------------------------------------------------ state

VARIABLES
    pc,            \* each process that imports the module: "stopped",
                   \* "counted" (in init_db, between its count of the
                   \* users and its INSERT) or "imported"
    pending,       \* for a process in init_db: its environment and the
                   \* users table it counted
    users,         \* the users table
    login_events,  \* the login_events table
    session,       \* each browser session's Flask session
    cards_cache,   \* _cards_cache: None or the loaded list
    cards_json,    \* data/cards.json on disk
    static_files,  \* the files under static/
    last,          \* the latest request: who sent it, their session before
                   \* it, the view that ran ("none": none did), the response
    boot,          \* the latest run of init_db that ended: its environment,
                   \* the users table it counted and the table it left,
                   \* whether its INSERT raised
    ok_logins,     \* how many POST /login were answered with the redirect to "/"
    since_logout,  \* per session: logged out, and no successful login since
    inflight,      \* per session: its POST /login that stands in login()
                   \* between the commit of its login_events row and the
                   \* write of the session, or None
    script_tx,     \* the script's connection (g.db) is inside a write
                   \* transaction: it holds the database's write lock
    cut_logins     \* how many POST /login were cut off, by the end of the
                   \* server process, after the commit of their row

vars ==
    <<pc, pending, users, login_events, session, cards_cache, cards_json,
      static_files, last, boot, ok_logins, since_logout, inflight, script_tx,
      cut_logins>>

\* The processes that import the module: the server, and a script or shell
\* that calls create_user.
Server == 1
Script == 2
Procs == {Server, Script}

\* The server has imported the module and serves requests.
running == pc[Server] = "imported"

Sessions == 1..NumSessions

\* The INSERT with the row's own id in the user_id column.
EventRow_own_id(id, user_id) == [id |-> id, user_id |-> id]

\* A row of login_events (ts, ip and user_agent are left out).
EventRow(id, user_id) == [id |-> id, user_id |-> user_id]

\* What a view function leaves behind: its response and the session, the
\* login_events table and the cards cache after it.
Outcome(view, resp, sess, events, cache) ==
    [sess |-> sess, view |-> view, resp |-> resp, cache |-> cache,
     events |-> events]

\* login() on a POST, down to its check: the user row whose session it
\* goes on to open, None when the e-mail has no active row or the password
\* is not that row's.
checked_user(req, users_table) ==
    LET email == lower(strip(or_empty(req.email, <<>>)))
        password == or_empty(req.password, "")
        user == find_user_by_email(users_table, email)
    IN  IF user = None
           \/ ~verify_password(password, The(user).password_hash)
        THEN None
        ELSE user

\* login(), run from its first line to its last: POST checks the
\* credentials, records the event and fills the session; another method
\* (GET, HEAD) shows the form, or goes to "/" when already logged in.  While
\* another connection is inside a write transaction (locked) the INSERT
\* raises OperationalError, "database is locked", and the answer is the 500
\* of an exception in a view.
login(req, sess, users_table, events, cache, locked) ==
    IF req.method = "POST"
    THEN LET user == checked_user(req, users_table)
         IN  IF user = None
             THEN Outcome("login",
                          Response(401, "login_page",
                                   <<"Invalid email or password">>, <<>>,
                                   {}),
                          sess, events, cache)
             ELSE IF locked
             THEN Outcome("login", ErrorPage(500), sess, events, cache)
             ELSE Outcome("login", Redirect(<<>>),
                          [sess EXCEPT !.user_id = Some(The(user).id),
                                       !.user_email = Some(The(user).email)],
                          Table(Append(events.rows,
                                       EventRow(next_id(events),
                                                The(user).id)),
                                next_id(events)),
                          cache)
    ELSE IF logged_in(sess)
         THEN Outcome("login", Redirect(<<>>), sess, events, cache)
         ELSE Outcome("login", Response(200, "login_page", <<>>, <<>>, {}),
                      sess, events, cache)

\* logout() removing user_id alone: session.pop("user_id", None).
logout_pops_user_id(req, sess, events, cache) ==
    Outcome("logout", Redirect(<<"login">>), [sess EXCEPT !.user_id = None],
            events, cache)

\* logout(): session.clear() and the redirect to /login.
logout(req, sess, events, cache) ==
    Outcome("logout", Redirect(<<"login">>), EmptySession, events, cache)

\* api_get_cards()
api_get_cards(req, sess, events, cache, file) ==
    IF req.sec_fetch_mode = "navigate"
    THEN Outcome("api_get_cards", Redirect(<<>>), sess, events, cache)
    ELSE LET loaded == load_cards(cache, file)
         IN  IF loaded = None
             THEN Outcome("api_get_cards", ErrorPage(500), sess, events, cache)
             ELSE Outcome("api_get_cards",
                          Response(200, "json", <<>>,
                                   filter_cards(The(loaded), req.categories),
                                   {}),
                          sess, events, loaded)

\* api_categories()
api_categories(req, sess, events, cache, file) ==
    LET loaded == load_cards(cache, file)
    IN  IF loaded = None
        THEN Outcome("api_categories", ErrorPage(500), sess, events, cache)
        ELSE Outcome("api_categories",
                     Response(200, "json", <<>>, <<>>,
                              category_names(The(loaded))),
                     sess, events, loaded)

\* spa_fallback(): the UI shell for a client route, 404 under api/.
spa_fallback(req, files) ==
    IF ~starts_with_dir(req.path, "api")
    THEN send_file(files, <<"index.html">>)
    ELSE Json(404, "Not found")

\* The views that change no state: the response of each.
plain_view(endpoint, req, files) ==
    CASE endpoint = "health" -> Json(200, "status ok")
      [] endpoint = "serve_logo" -> send_file(files, <<"logo.jpg">>)
      [] endpoint = "serve_card_file" ->
             send_file(files, <<"cards">> \o Tail(req.path))
      [] endpoint = "static" -> send_file(files, Tail(req.path))
      [] endpoint = "index" -> send_file(files, <<"index.html">>)
      [] endpoint = "index_html" -> Redirect(<<>>)
      [] endpoint = "spa_fallback" -> spa_fallback(req, files)
      [] endpoint = "api_get_state" -> Json(200, "state")
      [] endpoint \in {"api_set_state", "api_restart", "api_hide",
                       "api_unhide_all"} -> Json(200, "ok")

\* dispatch_request for the endpoint URL matching gave: the error of a path
\* or method without a rule, Flask's own answer to OPTIONS, or the view
\* function.
dispatch_request(endpoint, req, sess, users_table, events, cache, file, files, locked) ==
    IF endpoint \in {"404", "405"}
    THEN Outcome("none", ErrorPage(IF endpoint = "404" THEN 404 ELSE 405),
                 sess, events, cache)
    ELSE IF req.method = "OPTIONS"
    THEN Outcome("none", make_default_options_response, sess, events, cache)
    ELSE CASE endpoint = "login" ->
                login(req, sess, users_table, events, cache, locked)
           [] endpoint = "logout" -> logout(req, sess, events, cache)
           [] endpoint = "api_get_cards" ->
                api_get_cards(req, sess, events, cache, file)
           [] endpoint = "api_categories" ->
                api_categories(req, sess, events, cache, file)
           [] OTHER ->
                Outcome(endpoint, plain_view(endpoint, req, files), sess,
                        events, cache)

\* One request through the app: the before_request guard, then URL matching
\* and dispatch_request.
full_dispatch_request(req, sess, users_table, events, cache, file, files, locked) ==
    IF require_login(req.path, sess) # None
    THEN Outcome("none", The(require_login(req.path, sess)), sess, events,
                 cache)
    ELSE dispatch_request(match_request(req.method, req.path), req, sess,
                          users_table, events, cache, file, files, locked)

\* What a request leaves behind, with its response as it goes out.
finalize_request(method, out) ==
    [out EXCEPT !.resp = get_wsgi_response(method, out.resp)]

\* The request served: the guard, the routing and the view function, and the
\* response as it goes out.
serve(req, sess, users_table, events, cache, file, files, locked) ==
    finalize_request(req.method,
                     full_dispatch_request(req, sess, users_table, events,
                                           cache, file, files, locked))

\* ----------------------------------------------------------------- inputs

Optional(S) == {None} \cup {Some(x) : x \in S}

\* The request methods of the model (no route takes PUT).
Methods == {"GET", "HEAD", "POST", "OPTIONS", "PUT"}

\* Requests of every kind, as method and path: routes and a path without
\* one under /api/, the UI shell and client routes, paths require_login
\* always allows; by GET, and by other methods where a rule takes them
\* (POST, HEAD, OPTIONS) or none does (POST /api/cards: 405).
AllLines ==
    {<<"GET", <<"api", "cards">>>>, <<"GET", <<"api", "nope">>>>,
     <<"GET", <<>>>>, <<"GET", <<"study">>>>, <<"GET", <<"health">>>>,
     <<"GET", <<"static", "index.html">>>>,
     <<"POST", <<"api", "restart">>>>, <<"POST", <<"api", "cards">>>>,
     <<"HEAD", <<"api", "cards">>>>,
     <<"HEAD", <<"static", "index.html">>>>,
     <<"OPTIONS", <<"api", "cards">>>>}

\* One request of each kind.
SomeLines == {<<"GET", <<>>>>, <<"HEAD", <<"api", "cards">>>>}

\* The requests for the cards that are not a GET /api/cards, and the other
\* routes.
CardLines ==
    {<<"GET", <<"api", "categories">>>>, <<"HEAD", <<"api", "cards">>>>,
     <<"OPTIONS", <<"api", "cards">>>>, <<"GET", <<"api", "state">>>>,
     <<"HEAD", <<"api", "restart">>>>, <<"GET", <<"index.html">>>>,
     <<"GET", <<"logo.jpg">>>>, <<"GET", <<"cards", "c1.jpg">>>>,
     <<"OPTIONS", <<"health">>>>, <<"GET", <<"api">>>>,
     <<"PUT", <<"health">>>>}

\* The forms a client may submit to /login, as e-mail and password, on
\* MixedDb: no field at all; the e-mail of the deactivated row, as stored
\* and in upper case; the e-mail of an active row in other case with white
\* space around it, with its password and with another; the e-mail of the
\* row create_user adds.
Forms ==
    {<<None, None>>, <<Some(<<"a">>), Some("pw")>>,
     <<Some(<<"A">>), Some("pw")>>,
     <<Some(<<VT, "A", "b", NBSP>>), Some("changeme123")>>,
     <<Some(<<VT, "A", "b", NBSP>>), Some("pw")>>,
     <<Some(<<"b">>), Some("pw")>>}

\* E-mail texts given to create_user on MixedDb: one no row holds, and one
\* a row holds.
NewEmails == {<<"B", " ">>}
TakenEmails == {<<"a", "b">>}

\* The forms the first session alone submits: the e-mail and password of
\* the row create_user adds (of no row, where it adds none), and no field at
\* all.
FirstForms == {<<Some(<<"b">>), Some("pw")>>, <<None, None>>}

\* The environment of a process, as the optional BOOTSTRAP_USER_EMAIL and
\* BOOTSTRAP_USER_PASSWORD: neither is set.
DefaultEnv == <<None, None>>

\* Environments of the server: a blank e-mail; an e-mail in upper case with
\* white space before it, with a password and with an empty one.
ServerEnvs ==
    {<<Some(<<VT, " ">>), Some("pw")>>, <<Some(<<NBSP, "B">>), Some("pw")>>,
     <<Some(<<NBSP, "B">>), Some("")>>}

\* Environments of the script: an empty e-mail; the e-mail of the server's
\* in lower case, with the default password.
ScriptEnvs == {<<Some(<<>>), None>>, <<Some(<<"b">>), None>>}

\* ?categories= texts a client may send: blank, one name, two names, names
\* with white space around them, empty names, a name no card has.
Params ==
    {<<>>, <<" ">>, <<"x">>, <<"y">>, <<"z">>, <<NBSP, "x", US>>,
     <<"x", ",", "y">>, <<"y", ",", "x">>, <<"x", ",", " ", "y">>,
     <<"x", " ", ",", "y">>, <<"y", " ">>, <<"x", "y">>, <<",">>,
     <<",", "x">>, <<"x", ",", ",", "y">>, <<"z", ",", "x">>,
     <<"D", "e", "m", "o">>}

\* The files under static/ : the shell, the logo and a card image (app.js is
\* not there).
AllStaticFiles == {<<"index.html">>, <<"logo.jpg">>, <<"cards", "c1.jpg">>}

\* data/cards.json : absent, not a list, or a list of cards of which one has
\* white space around its category and one has no category.
NoCardsFile == [exists |-> FALSE, is_list |-> FALSE, data |-> <<>>]
BadCardsFile == [exists |-> TRUE, is_list |-> FALSE, data |-> <<>>]
SomeCardsFile ==
    [exists |-> TRUE, is_list |-> TRUE,
     data |-> <<[id |-> 1, category |-> Some(<<"x">>)],
                [id |-> 2, category |-> Some(<<"y", VT>>)],
                [id |-> 3, category |-> None],
                [id |-> 4, category |-> Some(<<"x">>)]>>]

\* The users table found at start: never used; emptied by hand after it held
\* one row; one user made by create_user; rows changed by hand: a deactivated
\* user, an active one, and one whose e-mail is not lower-case.
FreshDb == Table(<<>>, 0)
EmptiedDb == Table(<<>>, 1)
OneUserDb == create_user(FreshDb, <<" ", "B">>, "pw")
MixedDb ==
    Table(<<UserRow(1, <<"a">>, hash_password("pw"), 0),
            UserRow(2, <<"a", "b">>, hash_password("changeme123"), 1),
            UserRow(3, <<"A">>, hash_password("pw"), 1)>>, 3)

NoRequest ==
    [sess |-> 0, view |-> "none", resp |-> ErrorPage(0),
     req |-> Request("", <<>>, None, None, None, ""),
     before |-> EmptySession, served |-> FALSE]

NoBoot ==
    [before |-> FreshDb, env_email |-> None, env_password |-> None,
     after |-> FreshDb, ran |-> FALSE, raised |-> ""]

\* What a process outside init_db holds of it: nothing.
NoPending == <<None, None, FreshDb>>

\* A POST /login past its commit: the request, the session it came with,
\* the session login() goes on to write, and the id of the login_events row
\* it committed.
Inflight(req, before, sess, event) ==
    [sess |-> sess, req |-> req, before |-> before, event |-> event]

\* ---------------------------------------------------------------- actions

\* The state before the server imports the module, for the databases and
\* files given; the script has imported it or not (its import left a table
\* with users as it was, and an empty one empty when its
\* BOOTSTRAP_USER_EMAIL is blank).
InitWith(dbs, card_files, static_sets, script_pcs) ==
    /\ pc \in {[p \in Procs |-> IF p = Script THEN at ELSE "stopped"] :
                   at \in script_pcs}
    /\ pending = [p \in Procs |-> NoPending]
    /\ users \in dbs
    /\ login_events = Table(<<>>, 0)
    /\ session = [s \in Sessions |-> EmptySession]
    /\ cards_cache = None
    /\ cards_json \in card_files
    /\ static_files \in static_sets
    /\ last = NoRequest
    /\ boot = NoBoot
    /\ ok_logins = 0
    /\ since_logout = [s \in Sessions |-> FALSE]
    /\ inflight = [s \in Sessions |-> None]
    /\ script_tx = FALSE
    /\ cut_logins = 0

\* What the latest init_db to end leaves on record: raised is the exception
\* of its INSERT, "" when it returned.
Booted(before, env_email, env_password, after, raised) ==
    [before |-> before, env_email |-> env_email,
     env_password |-> env_password, after |-> after, ran |-> TRUE,
     raised |-> raised]

\* A process imports the module (a start, or a restart that ends the
\* process wherever it stood): init_db creates the tables, commits and
\* counts the users.  With a user counted, or without an e-mail or a
\* password to insert, init_db and the import end here; otherwise the
\* process stands before init_db's INSERT, the database unlocked.  The
\* server's _cards_cache starts as None and the requests it was serving get
\* no answer; the script's connection is a new one.
StartApp(procs, envs) ==
    \E p \in procs, env \in envs :
        /\ IF init_db_inserts(users, env[1], env[2])
           THEN /\ pc' = [pc EXCEPT ![p] = "counted"]
                /\ pending' = [pending EXCEPT ![p] = <<env[1], env[2], users>>]
                /\ boot' = boot
           ELSE /\ pc' = [pc EXCEPT ![p] = "imported"]
                /\ pending' = [pending EXCEPT ![p] = NoPending]
                /\ boot' = Booted(users, env[1], env[2], users, "")
        /\ cards_cache' = IF p = Server THEN None ELSE cards_cache
        /\ inflight' = IF p = Server THEN [s \in Sessions |-> None]
                       ELSE inflight
        /\ cut_logins' =
               IF p = Server
               THEN cut_logins
                        + Cardinality({s \in Sessions : inflight[s] # None})
               ELSE cut_logins
        /\ script_tx' = IF p = Script THEN FALSE ELSE script_tx
        /\ UNCHANGED <<users, login_events, session, cards_json,
                       static_files, last, ok_logins, since_logout>>

\* init_db's INSERT of the bootstrap user and the end of the import, on the
\* users table as it is by now.  When the INSERT raises (the e-mail has been
\* taken meanwhile, or the script holds the write lock) the import fails and
\* the process does not start.
BootstrapInsert(procs) ==
    \E p \in procs :
        /\ pc[p] = "counted"
        /\ \E raised \in {init_db_raises(users, pending[p][1], script_tx)} :
               /\ users' = init_db_insert(users, pending[p][1],
                                          pending[p][2], script_tx)
               /\ pc' = [pc EXCEPT ![p] = IF raised # "" THEN "stopped"
                                          ELSE "imported"]
               /\ boot' = Booted(pending[p][3], pending[p][1], pending[p][2],
                                 init_db_insert(users, pending[p][1],
                                                pending[p][2], script_tx),
                                 raised)
        /\ pending' = [pending EXCEPT ![p] = NoPending]
        /\ UNCHANGED <<login_events, session, cards_cache, cards_json,
                       static_files, last, ok_logins, since_logout, inflight,
                       script_tx, cut_logins>>

\* create_user called by the script on the module it imported, inside an
\* application context (no route calls it).  Its INSERT opens a write
\* transaction on the script's connection, which its commit ends; when the
\* INSERT raises IntegrityError nothing ends the transaction, and the
\* connection, kept in g, holds the write lock from then on.
CreateUser(emails, passwords) ==
    \E email \in emails, raw_password \in passwords :
        /\ pc[Script] = "imported"
        /\ users' = create_user(users, email, raw_password)
        /\ script_tx' =
               CASE create_user_raises(users, email, raw_password)
                        = "IntegrityError" -> TRUE
                 [] create_user_raises(users, email, raw_password)
                        = "ValueError" -> script_tx
                 [] OTHER -> FALSE
        /\ UNCHANGED <<pc, pending, login_events, session, cards_cache,
                       cards_json, static_files, last, boot, ok_logins,
                       since_logout, inflight, cut_logins>>

\* close_db at the end of the script's application context: the connection
\* is closed, which rolls its open transaction back and frees the write lock.
CloseDb ==
    /\ pc[Script] = "imported"
    /\ script_tx
    /\ script_tx' = FALSE
    /\ UNCHANGED <<pc, pending, users, login_events, session, cards_cache,
                   cards_json, static_files, last, boot, ok_logins,
                   since_logout, inflight, cut_logins>>

\* The request was a POST /login answered with the redirect to "/".
login_succeeded(req, resp) ==
    req.method = "POST" /\ req.path = <<"login">> /\ resp = Redirect(<<>>)

\* Session s, with no request waiting for its answer, sends request req and
\* the server takes it to its answer, or, for a POST /login whose
\* credentials pass, to the commit of its login_events row: the session is
\* not written and nothing is answered yet.
Handle(s, req) ==
    /\ running
    /\ inflight[s] = None
    /\ \E out \in {serve(req, session[s], users, login_events, cards_cache,
                          cards_json, static_files, script_tx)} :
           IF login_succeeded(req, out.resp)
           THEN /\ login_events' = out.events
                /\ inflight' =
                       [inflight EXCEPT ![s] =
                           Some(Inflight(req, session[s], out.sess,
                                         out.events.seq))]
                /\ UNCHANGED <<session, cards_cache, last, ok_logins,
                               since_logout>>
           ELSE /\ session' = [session EXCEPT ![s] = out.sess]
                /\ cards_cache' = out.cache
                /\ last' = [sess |-> s, view |-> out.view, resp |-> out.resp,
                            req |-> req, before |-> session[s],
                            served |-> TRUE]
                /\ since_logout' =
                       [since_logout EXCEPT ![s] =
                           IF out.view = "logout" THEN TRUE ELSE @]
                /\ UNCHANGED <<login_events, ok_logins, inflight>>
    /\ UNCHANGED <<pc, pending, users, cards_json, static_files, boot,
                   script_tx, cut_logins>>

\* login() after its commit: it writes user_id and user_email into the
\* session and answers with the redirect to "/".
LoginAnswer(clients) ==
    \E s \in clients :
        /\ running
        /\ inflight[s] # None
        /\ session' = [session EXCEPT ![s] = The(inflight[s]).sess]
        /\ last' = [sess |-> s, view |-> "login", resp |-> Redirect(<<>>),
                    req |-> The(inflight[s]).req,
                    before |-> The(inflight[s]).before, served |-> TRUE]
        /\ ok_logins' = ok_logins + 1
        /\ since_logout' = [since_logout EXCEPT ![s] = FALSE]
        /\ inflight' = [inflight EXCEPT ![s] = None]
        /\ UNCHANGED <<pc, pending, users, login_events, cards_cache,
                       cards_json, static_files, boot, script_tx,
                       cut_logins>>

\* POST /login with one of the forms given, as e-mail and password; the
\* clients stop sending credentials that pass once login_events holds
\* MaxEvents rows.
LoginPost(clients, forms) ==
    \E s \in clients, form \in forms :
        /\ \/ Len(login_events.rows) < MaxEvents
           \/ checked_user(Request("POST", <<"login">>, form[1], form[2],
                                   None, ""), users) = None
        /\ Handle(s, Request("POST", <<"login">>, form[1], form[2], None, ""))

\* /login by a method that is not POST.
LoginPage(clients, methods) ==
    \E s \in clients, method \in methods :
        Handle(s, Request(method, <<"login">>, None, None, None, ""))

\* /logout by the methods given.
Logout(clients, methods) ==
    \E s \in clients, method \in methods :
        Handle(s, Request(method, <<"logout">>, None, None, None, ""))

\* One of the requests given, as method and path.
Browse(clients, lines) ==
    \E s \in clients, line \in lines :
        Handle(s, Request(line[1], line[2], None, None, None, ""))

\* GET /api/cards with the ?categories= argument and Sec-Fetch-Mode given.
GetCards(clients, params, modes) ==
    \E s \in clients, categories \in params, sec_fetch_mode \in modes :
        Handle(s, Request("GET", <<"api", "cards">>, None, None, categories,
                          sec_fetch_mode))

\* -------------------------------------------------------- specifications

\* Every kind of request, from every session, logged in or not: the guard
\* and the routing, with restarts of the server.
Init ==
    InitWith({FreshDb}, {NoCardsFile}, {AllStaticFiles}, {"stopped"})

Next ==
    \/ StartApp({Server}, {DefaultEnv})
    \/ BootstrapInsert({Server})
    \/ LoginPost(Sessions,
                 {<<Some(DefaultBootstrapEmail), Some("changeme123")>>})
    \/ LoginAnswer(Sessions)
    \/ LoginPage(Sessions, {"GET"})
    \/ Logout(Sessions, {"GET", "HEAD", "POST", "OPTIONS"})
    \/ Browse(Sessions, AllLines)

Spec == Init /\ [][Next]_vars

\* Every credential, from every session, on a database with users of each
\* kind, to which create_user adds one, who logs in from the first session
\* (init_db counts users there and never comes to its INSERT).
InitLogin ==
    InitWith({MixedDb}, {NoCardsFile}, {AllStaticFiles}, {"imported"})

NextLogin ==
    \/ StartApp({Server}, {DefaultEnv})
    \/ CreateUser(NewEmails, {"", "pw"})
    \/ CloseDb
    \/ LoginPost(Sessions, Forms \ FirstForms)
    \/ LoginPost({1}, FirstForms)
    \/ LoginAnswer(Sessions)
    \/ LoginPage({1}, {"HEAD"})
    \/ Logout({1}, {"POST"})
    \/ Browse(Sessions, SomeLines)

SpecLogin == InitLogin /\ [][NextLogin]_vars

\* Logins from every session on the same database, that pass and that fail,
\* with restarts of the server between the commit of a login and its
\* answer, and with the script holding the write lock after a create_user
\* that raised.
NextEvents ==
    \/ StartApp({Server}, {DefaultEnv})
    \/ CreateUser(TakenEmails, {"", "pw"})
    \/ CloseDb
    \/ LoginPost(Sessions, Forms \ FirstForms)
    \/ LoginPost({1}, FirstForms)
    \/ LoginAnswer(Sessions)
    \/ LoginPage(Sessions, {"HEAD"})
    \/ Logout(Sessions, {"POST"})
    \/ Browse(Sessions, SomeLines)

SpecEvents == InitLogin /\ [][NextEvents]_vars

\* Starts and restarts of the server and imports by the script, under every
\* bootstrap environment, interleaved with each other and with create_user;
\* and logging in with the credentials of the latest init_db.
InitBoot ==
    InitWith({FreshDb, EmptiedDb, OneUserDb, MixedDb}, {NoCardsFile},
             {AllStaticFiles}, {"stopped"})

NextBoot ==
    \/ StartApp({Server}, {DefaultEnv} \cup ServerEnvs)
    \/ StartApp({Script}, ScriptEnvs)
    \/ BootstrapInsert(Procs)
    \/ CreateUser({<<"c">>}, {"pw"})
    \/ CloseDb
    \/ LoginAnswer({1})
    \/ LoginPost({1},
                 {<<Some(environ_get(boot.env_email, DefaultBootstrapEmail)),
                    Some(environ_get(boot.env_password,
                                     DefaultBootstrapPassword))>>})
    \/ Logout({1}, {"GET"})

SpecBoot == InitBoot /\ [][NextBoot]_vars

\* One client, logged in or not, asking for cards with every ?categories=.
InitCards ==
    InitWith({FreshDb}, {NoCardsFile, BadCardsFile, SomeCardsFile},
             {AllStaticFiles}, {"imported"})

NextCards ==
    \/ StartApp({Server}, {DefaultEnv})
    \/ BootstrapInsert({Server})
    \/ CreateUser({<<"b">>}, {"pw"})
    \/ CloseDb
    \/ LoginPost({1}, {<<Some(DefaultBootstrapEmail), Some("changeme123")>>})
    \/ LoginAnswer({1})
    \/ GetCards({1}, Optional(Params), {"", "cors"})
    \/ GetCards({1}, {None, Some(<<"x">>)}, {"navigate"})
    \/ Browse({1}, CardLines)

SpecCards == InitCards /\ [][NextCards]_vars

\* ----------------------------------------------------------------- claims

\* The paths require_login always allows, as its comment lists them: static
\* files, login/logout, logo and health checks.
ExemptPath(path) ==
    \/ starts_with_dir(path, "static")
    \/ starts_with_dir(path, "cards")
    \/ path \in {<<"logo.jpg">>, <<"login">>, <<"logout">>, <<"health">>}

\* The session holds no user_id.
Guest(sess) == sess.user_id = None

\* The response that denies a request to path: 401 Unauthorized under
\* /api/, the redirect to /login elsewhere.
Denial(path) ==
    IF starts_with_dir(path, "api") THEN Json(401, "Unauthorized")
    ELSE Redirect(<<"login">>)

\* The response carries the UI shell.
IsShell(resp) ==
    resp.kind = "file" /\ resp.detail = <<"index.html">> /\ resp.body

\* The paths of the UI: "/" and the client routes.
UiPaths == {<<>>, <<"index.html">>, <<"study">>, <<"api">>}

\* C1: a request to a path under /api/ from a session without user_id, by
\* any method, is answered 401 {"error": "Unauthorized"} by require_login
\* (a HEAD gets that answer's headers, as it does of every answer); no view
\* function runs for it and no card is in the answer.
C1_ApiBlockedForGuests ==
    (last.served /\ starts_with_dir(last.req.path, "api")
                 /\ Guest(last.before))
        => /\ last.resp = get_wsgi_response(last.req.method,
                                            Json(401, "Unauthorized"))
           /\ last.view = "none"
           /\ last.resp.cards = <<>>

\* C1's case: a guest asked for /api/cards and got the 401 with its body.
C1_Witness ==
    /\ last.served
    /\ last.req.path = <<"api", "cards">>
    /\ last.req.method = "GET"
    /\ Guest(last.before)
    /\ last.resp.status = 401
    /\ last.resp.body

\* C2: the UI shell and the answers of the API views go only to a session
\* whose user_id is set; a guest who asks for "/" or a client route is
\* redirected to /login, and no path serves index.html to a guest.
C2_ShellAndApiOnlyWhenLoggedIn ==
    (last.served /\ ~logged_in(last.before))
        => /\ ~IsShell(last.resp)
           /\ starts_with_dir(last.req.path, "api") => last.view = "none"
           /\ last.req.path \in UiPaths =>
                  last.resp = get_wsgi_response(last.req.method,
                                                Redirect(<<"login">>))

\* A session's user_id and user_email are the id and e-mail of one active
\* row of users.
C3_SessionNamesActiveUser ==
    \A s \in Sessions :
        ~Guest(session[s]) =>
            \E i \in DOMAIN users.rows :
                /\ users.rows[i].is_active = 1
                /\ session[s].user_id = {users.rows[i].id}
                /\ session[s].user_email = {users.rows[i].email}

\* A step that leaves a session changed and holding a user_id is a POST
\* /login of that session with the e-mail and password of an active row.
C3_SetOnlyByLogin ==
    \A s \in Sessions :
        (session'[s] # session[s] /\ ~Guest(session'[s])) =>
            /\ last'.served /\ last'.sess = s
            /\ last'.req.method = "POST" /\ last'.req.path = <<"login">>
            /\ \E i \in DOMAIN users.rows :
                   /\ users.rows[i].is_active = 1
                   /\ users.rows[i].email =
                          lower(strip(or_empty(last'.req.email, <<>>)))
                   /\ users.rows[i].password_hash =
                          hash_password(or_empty(last'.req.password, ""))
                   /\ session'[s].user_id = {users.rows[i].id}
                   /\ session'[s].user_email = {users.rows[i].email}

\* C3: in every state a session's user_id and user_email are the id and
\* e-mail of one active row of users; and a step that leaves a session with a
\* user_id it did not hold is a POST /login of that session whose e-mail,
\* stripped and lower-cased, is that row's e-mail and whose password has
\* that row's password_hash as its SHA-256.
C3_LoggedInOnlyByLogin ==
    []C3_SessionNamesActiveUser /\ [][C3_SetOnlyByLogin]_vars

\* C3's case: a session logged in as user 2 by submitting that user's
\* e-mail in other case with white space around it.
C3_Witness ==
    /\ last.served
    /\ last.req.email = Some(<<VT, "A", "b", NBSP>>)
    /\ Guest(last.before)
    /\ session[last.sess].user_id = {2}

\* The sessions whose POST /login stands between its commit and its answer.
InFlight == {s \in Sessions : inflight[s] # None}

\* Whenever no POST /login stands between its commit and its answer,
\* login_events holds as many rows as POST /login requests succeeded.
C4_OneRowPerLogin ==
    InFlight = {} => Len(login_events.rows) = ok_logins

\* login_events holds one row for each POST /login that succeeded, one for
\* each that is past its commit and not answered yet, and one for each that
\* the end of the server process cut off there.
C4_OneRowPerCommit ==
    Len(login_events.rows) = ok_logins + Cardinality(InFlight) + cut_logins

\* A step that changes login_events appends one row to it, for a POST /login
\* of a session whose e-mail and password are those of an active row of
\* users, with that row's id as its user_id.
C4_AppendOnLogin ==
    login_events' # login_events =>
        /\ Len(login_events'.rows) = Len(login_events.rows) + 1
        /\ SubSeq(login_events'.rows, 1, Len(login_events.rows))
               = login_events.rows
        /\ \E s \in Sessions :
               /\ inflight[s] = None /\ inflight'[s] # None
               /\ The(inflight'[s]).req.method = "POST"
               /\ The(inflight'[s]).req.path = <<"login">>
               /\ login_events'.rows[Len(login_events'.rows)].id
                      = The(inflight'[s]).event
               /\ \E i \in DOMAIN users.rows :
                      /\ users.rows[i].is_active = 1
                      /\ users.rows[i].email =
                             lower(strip(or_empty(The(inflight'[s]).req.email,
                                                  <<>>)))
                      /\ users.rows[i].password_hash =
                             hash_password(
                                 or_empty(The(inflight'[s]).req.password, ""))
                      /\ login_events'.rows[Len(login_events'.rows)].user_id
                             = users.rows[i].id

\* A step in which a POST /login succeeds is the answer to one past its
\* commit: login_events holds the row it committed, whose user_id is the one
\* the session holds from then on.
C4_AnswerAfterCommit ==
    ok_logins' # ok_logins =>
        /\ ok_logins' = ok_logins + 1
        /\ login_succeeded(last'.req, last'.resp)
        /\ inflight[last'.sess] # None
        /\ \E i \in DOMAIN login_events.rows :
               /\ login_events.rows[i].id = The(inflight[last'.sess]).event
               /\ {login_events.rows[i].user_id} = session'[last'.sess].user_id
        /\ login_events' = login_events

\* C4 as stated: after any sequence of requests, each of them answered,
\* login_events holds as many rows as POST /login requests succeeded; a
\* step changes the table only by appending one row, for a POST /login,
\* with the user_id of the user logging in.
C4_LoginEventsTrackLogins ==
    []C4_OneRowPerLogin /\ [][C4_AppendOnLogin]_vars

\* C4 amended: login() commits the row of a POST /login whose credentials
\* pass before it writes the session and answers.  login_events holds one
\* row for each POST /login that succeeded, one for each past its commit and
\* not answered yet, and one for each cut off there by the end of the server
\* process; a step changes the table only by appending one row, for a POST
\* /login with the e-mail and password of an active user, with that user's
\* id; a POST /login that succeeds has its row in the table, with the
\* user_id the session then holds: no request updates or deletes a row, and
\* logout, a failed login, GET /login and the other routes add none.
C4_LoginEventsTrackCommits ==
    /\ []C4_OneRowPerCommit
    /\ [][C4_AppendOnLogin]_vars
    /\ [][C4_AnswerAfterCommit]_vars

\* C4's case: two rows were committed; the login of one succeeded, the other
\* was cut off by a restart of the server before its answer.
C4_Witness ==
    /\ Len(login_events.rows) = 2
    /\ ok_logins = 1
    /\ cut_logins = 1
    /\ last.served
    /\ login_succeeded(last.req, last.resp)
    /\ session[last.sess].user_id = {login_events.rows[2].user_id}

\* C5: a GET or POST to /logout, from a session logged in or not, is answered
\* with the redirect to /login and leaves the session without user_id and
\* user_email; from then until that session's next successful POST /login its
\* session stays empty and each of its requests to a non-exempt path, by any
\* method, is denied, no view function running.
C5_LogoutEndsSession ==
    /\ (last.served /\ last.req.path = <<"logout">>
                    /\ last.req.method \in {"GET", "POST"})
           => /\ last.resp = Redirect(<<"login">>)
              /\ last.view = "logout"
              /\ session[last.sess] = EmptySession
              /\ since_logout[last.sess]
    /\ \A s \in Sessions : since_logout[s] => session[s] = EmptySession
    /\ (last.served /\ since_logout[last.sess]
                    /\ ~ExemptPath(last.req.path))
           => /\ last.resp = get_wsgi_response(last.req.method,
                                               Denial(last.req.path))
              /\ last.view = "none"

\* C5's case: somebody had logged in, every session has logged out since,
\* and a request for /api/cards that came after was denied.
C5_Witness ==
    /\ ok_logins >= 1
    /\ \A s \in Sessions : since_logout[s]
    /\ last.served
    /\ last.req.path = <<"api", "cards">>
    /\ last.req.method = "GET"
    /\ last.resp.status = 401

\* POST /login with these credentials, from a guest, gets the redirect to "/".
PassesLogin(users_table, email, password) ==
    login(Request("POST", <<"login">>, Some(email), Some(password), None, ""),
          EmptySession, users_table, Table(<<>>, 0), None, FALSE).resp
        = Redirect(<<>>)

\* The bootstrap credentials the latest init_db was configured with.
BootEmail == environ_get(boot.env_email, DefaultBootstrapEmail)
BootPassword == environ_get(boot.env_password, DefaultBootstrapPassword)

\* C6 as stated: after init_db ran to its end on a table it counted no user
\* in, the table holds an active user and the bootstrap credentials pass
\* POST /login; after it ran on a table with users, the table is as it was.
C6_BootstrapAlwaysCreates ==
    (boot.ran /\ boot.raised = "") =>
        IF boot.before.rows = <<>>
        THEN /\ \E i \in DOMAIN boot.after.rows :
                    boot.after.rows[i].is_active = 1
             /\ PassesLogin(boot.after, BootEmail, BootPassword)
        ELSE boot.after = boot.before

\* init_db was configured with an e-mail that is not blank and a password
\* that is not empty.
BootConfigured == strip(BootEmail) # <<>> /\ BootPassword # ""

\* The latest init_db completed, having counted no user, with an e-mail and
\* a password to insert.
BootInserted ==
    boot.ran /\ boot.raised = "" /\ boot.before.rows = <<>> /\ BootConfigured

\* After init_db completed: the table as it was when init_db counted a user
\* in it, or had no e-mail or no password to insert; otherwise the bootstrap
\* user is its newest row, active, under the e-mail stripped and lower-cased
\* and the hash of the password.
C6_BootstrapRow ==
    (boot.ran /\ boot.raised = "") =>
        IF boot.before.rows = <<>> /\ BootConfigured
        THEN \E i \in DOMAIN boot.after.rows :
                 /\ boot.after.rows[i].is_active = 1
                 /\ boot.after.rows[i].email = lower(strip(BootEmail))
                 /\ boot.after.rows[i].password_hash
                        = hash_password(BootPassword)
                 /\ boot.after.rows[i].id = boot.after.seq
        ELSE boot.after = boot.before

\* A step that answers a POST /login made with the bootstrap credentials,
\* after init_db completed having inserted the bootstrap user: the answer is
\* the redirect to "/" and the session holds that user's id and e-mail, or,
\* while the script holds the write lock, the answer is the 500 of
\* "database is locked".
C6_BootstrapLogin ==
    (/\ BootInserted /\ boot' = boot
     /\ last' # last
     /\ last'.req.method = "POST" /\ last'.req.path = <<"login">>
     /\ last'.req.email = Some(BootEmail)
     /\ last'.req.password = Some(BootPassword))
        => \/ /\ last'.resp = Redirect(<<>>)
              /\ session'[last'.sess].user_email = {lower(strip(BootEmail))}
              /\ \E i \in DOMAIN users.rows :
                     /\ users.rows[i].email = lower(strip(BootEmail))
                     /\ session'[last'.sess].user_id = {users.rows[i].id}
           \/ /\ script_tx
              /\ last'.resp = ErrorPage(500)
              /\ session' = session

\* C6 amended: when the init_db that completed had counted a user, it added
\* none.  When it had counted no user and BOOTSTRAP_USER_EMAIL is not blank
\* and BOOTSTRAP_USER_PASSWORD is not empty, the users table holds the
\* bootstrap user, active, and a POST /login with the bootstrap credentials
\* that is answered from then on is answered with the redirect to "/" and
\* the bootstrap user's session, unless another connection holds the write
\* lock, when it is answered 500.  When the e-mail is blank or the password
\* empty, init_db creates no user.
C6_BootstrapCreatesWhenConfigured ==
    []C6_BootstrapRow /\ [][C6_BootstrapLogin]_vars

\* C6's case: init_db counted no user in a table emptied by hand, with
\* BOOTSTRAP_USER_EMAIL a no-break space and "B"; create_user added a user
\* before init_db's INSERT, so the bootstrap user got id 3; and a POST
\* /login with the credentials as configured succeeded.
C6_Witness ==
    /\ BootInserted
    /\ boot.before = EmptiedDb
    /\ boot.env_email = Some(<<NBSP, "B">>)
    /\ Len(boot.after.rows) = 2
    /\ last.served
    /\ last.req.email = Some(<<NBSP, "B">>)
    /\ last.resp = Redirect(<<>>)
    /\ session[last.sess].user_id = {3}

\* The names between the commas of a text, as a set (an empty piece is no
\* name).
ListedNames(text) ==
    {split_comma(text)[i] : i \in DOMAIN split_comma(text)} \ {<<>>}

\* The latest request is a GET /api/cards of a logged-in session, and the
\* cards are loaded.
CardsAsked ==
    /\ last.served
    /\ last.req.method = "GET"
    /\ last.req.path = <<"api", "cards">>
    /\ logged_in(last.before)
    /\ cards_cache # None

\* C7 as stated: the answer to GET /api/cards is, for a categories parameter
\* that is not blank, the loaded cards, in order, whose category is one of
\* the names listed, and every loaded card for a missing or blank one; the
\* cache keeps the whole list.
C7_CardsOfListedNames ==
    /\ cards_cache \in {None, read_cards(cards_json)}
    /\ CardsAsked =>
           LET param == or_empty(last.req.categories, <<>>)
               loaded == The(cards_cache)
           IN  /\ last.resp.status = 200
               /\ last.resp.cards =
                      IF strip(param) = <<>> THEN loaded
                      ELSE SelectSeq(loaded, LAMBDA c :
                               c.category \in ListedNames(param))

\* C7 amended: unless the request says Sec-Fetch-Mode: navigate (then the
\* answer is the redirect to "/"), the answer is, for a parameter that is
\* not blank, the loaded cards, in order, whose category with the white
\* space around it stripped equals a non-empty piece between the commas of
\* the stripped parameter, and every loaded card for a missing or blank one;
\* the cache keeps the whole list.
C7_CardsOfStrippedCategory ==
    /\ cards_cache \in {None, read_cards(cards_json)}
    /\ CardsAsked =>
           LET param == strip(or_empty(last.req.categories, <<>>))
               loaded == The(cards_cache)
           IN  IF last.req.sec_fetch_mode = "navigate"
               THEN last.resp = Redirect(<<>>)
               ELSE /\ last.resp.status = 200
                    /\ last.resp.cards =
                           IF param = <<>> THEN loaded
                           ELSE SelectSeq(loaded, LAMBDA c :
                                    strip(c.category) \in ListedNames(param))

\* C7's case: asked for "y", the answer is the one card whose category is
\* "y" with a vertical tab after it, and the cache still holds the four
\* cards.
C7_Witness ==
    /\ CardsAsked
    /\ last.req.categories = Some(<<"y">>)
    /\ Len(last.resp.cards) = 1
    /\ last.resp.cards[1].id = 2
    /\ Len(The(cards_cache)) = 4


=============================================================================
